---- MODULE Spec2Model ----
(***************************************************************************)
(* State-machine model of the zombie simulation of zombie-shooter:         *)
(* ZombieDrawable (update, idle_direction_movement, check_bullet_hits,     *)
(* update_alive_idx, update_death_idx), ZombieDrawSystem::get_next_sprite  *)
(* and the per-tick loop of PreDrawSystem::run.                            *)
(*                                                                         *)
(* Numbers.  The source computes in f32.  The model is fixed point:        *)
(* positions are in hundredths of a world unit, movement vectors and the   *)
(* movement speed are in tenths, so that vector * speed is in hundredths.  *)
(* Headings ("dir" in the source, an angle) are whole degrees.             *)
(***************************************************************************)
EXTENDS Integers, Sequences, FiniteSets, TLC

VARIABLES
  zombies,     \* Zombies.zombies: agent id -> ZombieDrawable record
  run,         \* position of PreDrawSystem::run and the inputs it joined
  call,        \* the last operation executed and the inputs it was given
  before,      \* the state of agent call.zid right before that operation
  rand_calls,  \* agent id -> number of get_random_bool() calls made for it
  ticks,       \* number of runs of PreDrawSystem::run started so far
  calls,       \* agent id -> number of update and check_bullet_hits calls made
  world,       \* which components the entity of the Zombies container has
  window,      \* WindowContext: controls, mouse_pos, the last poll_events call
  bullet       \* one views::Bullet and its last Projectile::update call

vars == <<zombies, run, call, before, rand_calls, ticks, calls, world, window, bullet>>

(***************************************************************************)
(* Bounds of the model.                                                    *)
(***************************************************************************)
MaxTicks == 2      \* runs of PreDrawSystem::run in one behaviour
MaxBullets == 2    \* length of the projectile list of a tick
MaxFrame == 3      \* largest max_idx handed to the frame-counter helpers
MaxStreak == 4     \* longest run of consecutive counter calls that is counted
MaxEvents == 3     \* most events one poll_events call drains
MaxOutput == 5     \* largest output width and height, in bullet position units

ZombieIds == {1}

(***************************************************************************)
(* Enumerations.                                                           *)
(***************************************************************************)
Stances == {"Still", "Walking", "NormalDeath", "CriticalDeath"}

\* Orientation as usize: the eight headings and the Still sentinel.
Right == 0
UpRight == 1
Up == 2
UpLeft == 3
Left == 4
DownLeft == 5
Down == 6
DownRight == 7
OrientationStill == 8
Orientations == 0..8

ZOMBIE_STILL_SPRITE_OFFSET == 32
NORMAL_DEATH_SPRITE_OFFSET == 64

\* 300.0 world units, in hundredths.
PURSUIT_DISTANCE == 300 * 100
\* 15.0 world units, in hundredths.
HIT_EXTENT == 15 * 100
\* 1.4 and 1.0, in tenths.
PURSUIT_SPEED == 14
IDLE_SPEED == 10

(***************************************************************************)
(* Inputs the environment supplies.                                        *)
(***************************************************************************)
\* headings the path finder is taken to return
HeadingInputs == {135, 270}

\* positions handed to ZombieDrawable::new
InitPositions == {<<18000, 24000>>, <<17999, 24000>>, <<29800, 0>>}

\* CharacterInputState.movement
PlayerMovements == {<<0, 0>>, <<500, 0>>}

\* GameTime.0
GameTimes == {0, 2, 5, 6, 7, 8}

BulletPositions == {<<18100, 24100>>, <<0, 0>>}

RECURSIVE SeqsUpTo(_, _)
SeqsUpTo(S, n) ==
  IF n = 0 THEN {<<>>}
  ELSE LET shorter == SeqsUpTo(S, n - 1)
       IN shorter \cup {Append(s, x) : s \in {t \in shorter : Len(t) = n - 1}, x \in S}

BulletLists == SeqsUpTo(BulletPositions, MaxBullets)

(***************************************************************************)
(* Vector helpers (cgmath Point2 / shaders::Position arithmetic).          *)
(***************************************************************************)
Abs(a) == IF a < 0 THEN -a ELSE a
VAdd(p, q) == <<p[1] + q[1], p[2] + q[2]>>
VSub(p, q) == <<p[1] - q[1], p[2] - q[2]>>
VScale(p, k) == <<p[1] * k, p[2] * k>>

(***************************************************************************)
(* graphics helpers.                                                       *)
(***************************************************************************)
\* calc_hypotenuse(a, b) = sqrt(a*a + b*b); the model keeps the square.
calc_hypotenuse_sq(a, b) == a * a + b * b

\* direction_movement(dir): the unit vector of heading dir, in tenths.
direction_movement(dir) ==
  CASE dir = 0   -> <<10, 0>>
    [] dir = 45  -> <<7, 7>>
    [] dir = 90  -> <<0, 10>>
    [] dir = 135 -> <<-7, 7>>
    [] dir = 180 -> <<-10, 0>>
    [] dir = 225 -> <<-7, -7>>
    [] dir = 270 -> <<0, -10>>
    [] dir = 315 -> <<7, -7>>

\* direction_movement_180(v): the heading reversed by 180 degrees.
direction_movement_180(v) == <<-v[1], -v[2]>>

\* direction(from, to): the heading, in degrees, of the vector from -> to.
direction(from, to) ==
  LET dx == to[1] - from[1]
      dy == to[2] - from[2]
  IN CASE dx > 0 /\ dy = 0 -> 0
       [] dx > 0 /\ dy > 0 -> 45
       [] dx = 0 /\ dy > 0 -> 90
       [] dx < 0 /\ dy > 0 -> 135
       [] dx < 0 /\ dy = 0 -> 180
       [] dx < 0 /\ dy < 0 -> 225
       [] dx = 0 /\ dy < 0 -> 270
       [] dx > 0 /\ dy < 0 -> 315
       [] OTHER -> 0

\* orientation_to_direction(dir): the Orientation of a heading in degrees.
orientation_to_direction(dir) == ((dir + 22) \div 45) % 8

\* overlaps(area, el, width, height): axis-aligned box test.
overlaps(area, el, width, height) ==
  /\ area[1] - width < el[1]
  /\ area[1] + width > el[1]
  /\ area[2] - height < el[2]
  /\ area[2] + height > el[2]

(***************************************************************************)
(* ZombieDrawable.                                                         *)
(***************************************************************************)
\* ZombieDrawable::new(position)
new(position) ==
  [ position           |-> position,
    previous_position  |-> <<0, 0>>,
    orientation        |-> Left,
    stance             |-> "Still",
    direction          |-> Left,
    last_decision      |-> 0,
    movement_direction |-> <<0, 0>>,
    zombie_idx         |-> 0,
    zombie_death_idx   |-> 0,
    is_colliding       |-> FALSE,
    movement_speed     |-> 0 ]

\* is_alive with the CriticalDeath test left out
is_alive_forgets_critical(stance) == stance # "NormalDeath"

\* update: let is_alive = stance != NormalDeath && stance != CriticalDeath
is_alive(stance) == stance # "NormalDeath" /\ stance # "CriticalDeath"

\* update: let offset_delta = ci.movement - self.previous_position
offset_delta(z, movement) == VSub(movement, z.previous_position)

\* update: the square of distance_to_player, the hypotenuse of the absolute
\* coordinates of self.position - offset_delta
distance_to_player_sq(z, movement) ==
  LET x_y_distance_to_player == VSub(z.position, offset_delta(z, movement))
  IN calc_hypotenuse_sq(Abs(x_y_distance_to_player[1]), Abs(x_y_distance_to_player[2]))

\* the distance test with <= in place of <
in_pursuit_range_inclusive(z, movement) ==
  distance_to_player_sq(z, movement) <= PURSUIT_DISTANCE * PURSUIT_DISTANCE

\* update: if distance_to_player < 300.0
in_pursuit_range(z, movement) ==
  distance_to_player_sq(z, movement) < PURSUIT_DISTANCE * PURSUIT_DISTANCE

\* the cadence test with <= in place of <
decision_due_inclusive(last_decision, game_time) ==
  last_decision + 2 <= game_time \/ game_time = 0

\* idle_direction_movement: if self.last_decision + 2 < game_time || game_time == 0
decision_due(last_decision, game_time) ==
  last_decision + 2 < game_time \/ game_time = 0

\* the bounce stopping the agent
bounce_stands_still(z, can_move) ==
  IF ~can_move
  THEN LET dir == direction(<<0, 0>>, z.movement_direction)
       IN [z EXCEPT !.movement_direction = direction_movement_180(z.movement_direction),
                    !.orientation = orientation_to_direction(dir),
                    !.stance = "Still"]
  ELSE z

\* idle_direction_movement: the bounce off a tile that cannot be entered
bounce(z, can_move) ==
  IF ~can_move
  THEN LET dir == direction(<<0, 0>>, z.movement_direction)
       IN [z EXCEPT !.movement_direction = direction_movement_180(z.movement_direction),
                    !.orientation = orientation_to_direction(dir)]
  ELSE z

\* the destination re-rolled in every idle update
redecide_always(z, game_time, dir) ==
  [z EXCEPT !.stance = "Walking",
            !.last_decision = game_time,
            !.movement_direction = direction_movement(dir),
            !.direction = orientation_to_direction(dir)]

\* idle_direction_movement: the re-rolled destination; dir is the heading
\* calc_next_movement returns for the random end point
redecide(z, game_time, dir) ==
  IF decision_due(z.last_decision, game_time)
  THEN [z EXCEPT !.stance = "Walking",
                 !.last_decision = game_time,
                 !.movement_direction = direction_movement(dir),
                 !.direction = orientation_to_direction(dir)]
  ELSE z

idle_direction_movement(z, game_time, dir, can_move) ==
  redecide(bounce(z, can_move), game_time, dir)

\* the pursuit branch at the idle speed
pursue_at_idle_speed(z, dir) ==
  [z EXCEPT !.direction = orientation_to_direction(dir),
            !.movement_direction = direction_movement(dir),
            !.stance = "Walking",
            !.movement_speed = IDLE_SPEED]

\* update: the pursuit branch; dir is the heading calc_next_movement returns
pursue(z, dir) ==
  [z EXCEPT !.direction = orientation_to_direction(dir),
            !.movement_direction = direction_movement(dir),
            !.stance = "Walking",
            !.movement_speed = PURSUIT_SPEED]

\* update: the branch taken on is_alive and the distance
decide(z, movement, game_time, dir, can_move) ==
  IF is_alive(z.stance)
  THEN IF in_pursuit_range(z, movement)
       THEN pursue(z, dir)
       ELSE [idle_direction_movement(z, game_time, dir, can_move)
               EXCEPT !.movement_speed = IDLE_SPEED]
  ELSE [z EXCEPT !.movement_direction = <<0, 0>>]

\* the position update without the world-scroll term
moved_without_offset(z, delta) ==
  VAdd(VScale(z.movement_direction, z.movement_speed), z.position)

\* update: self.position = movement_direction * movement_speed + position + offset_delta
moved(z, delta) ==
  VAdd(VAdd(VScale(z.movement_direction, z.movement_speed), z.position), delta)

\* update without self.previous_position = ci.movement
update_keeps_snapshot(z, movement, game_time, dir, can_move) ==
  LET delta == offset_delta(z, movement)
      d == decide(z, movement, game_time, dir, can_move)
  IN [d EXCEPT !.position = moved(d, delta)]

\* ZombieDrawable::update(world_to_clip, ci, game_time)
update(z, movement, game_time, dir, can_move) ==
  LET delta == offset_delta(z, movement)
      d == decide(z, movement, game_time, dir, can_move)
  IN [d EXCEPT !.previous_position = movement,
               !.position = moved(d, delta)]

\* the guard of the hit with the NormalDeath test left out
still_standing_forgets_normal(stance) == stance # "CriticalDeath"

\* check_bullet_hits: ... && stance != NormalDeath && stance != CriticalDeath
still_standing(stance) == stance # "NormalDeath" /\ stance # "CriticalDeath"

\* the coin flip with one side leaving the agent on its feet
death_stance_one_sided(random_bool) == IF random_bool THEN "NormalDeath" ELSE "Walking"

\* check_bullet_hits: if get_random_bool() { NormalDeath } else { CriticalDeath }
death_stance(random_bool) == IF random_bool THEN "NormalDeath" ELSE "CriticalDeath"

\* check_bullet_hits: bullets.iter().for_each from bullet k on; rands are the
\* values get_random_bool() would return, used the values it did return
RECURSIVE hit_loop(_, _, _, _, _, _)
hit_loop(stance, position, bullets, rands, k, used) ==
  IF k > Len(bullets)
  THEN [stance |-> stance, used |-> used]
  ELSE IF overlaps(position, bullets[k], HIT_EXTENT, HIT_EXTENT) /\ still_standing(stance)
       THEN hit_loop(death_stance(rands[Len(used) + 1]), position, bullets, rands,
                     k + 1, Append(used, rands[Len(used) + 1]))
       ELSE hit_loop(stance, position, bullets, rands, k + 1, used)

\* ZombieDrawable::check_bullet_hits(bullets)
check_bullet_hits(z, bullets, rands) ==
  [z EXCEPT !.stance = hit_loop(z.stance, z.position, bullets, rands, 1, <<>>).stance]

random_bools_used(z, bullets, rands) ==
  hit_loop(z.stance, z.position, bullets, rands, 1, <<>>).used

\* the alive counter wrapping one frame late
update_alive_idx_late(z, max_idx) ==
  IF z.zombie_idx <= max_idx
  THEN [z EXCEPT !.zombie_idx = z.zombie_idx + 1]
  ELSE [z EXCEPT !.zombie_idx = 0]

\* ZombieDrawable::update_alive_idx(max_idx)
update_alive_idx(z, max_idx) ==
  IF z.zombie_idx < max_idx
  THEN [z EXCEPT !.zombie_idx = z.zombie_idx + 1]
  ELSE [z EXCEPT !.zombie_idx = 0]

\* the death counter wrapping like the alive counter
update_death_idx_wraps(z, max_idx) ==
  IF z.zombie_death_idx < max_idx
  THEN [z EXCEPT !.zombie_death_idx = z.zombie_death_idx + 1]
  ELSE [z EXCEPT !.zombie_death_idx = 0]

\* ZombieDrawable::update_death_idx(max_idx)
update_death_idx(z, max_idx) ==
  IF z.zombie_death_idx < max_idx
  THEN [z EXCEPT !.zombie_death_idx = z.zombie_death_idx + 1]
  ELSE z

(***************************************************************************)
(* ZombieDrawSystem::get_next_sprite.                                      *)
(***************************************************************************)
\* the match arm taken: 1..4 are the guarded arms, 5 is the `_` arm
sprite_arm(z) ==
  CASE z.stance = "Still" -> 1
    [] z.stance = "Walking" /\ z.orientation # OrientationStill -> 2
    [] z.stance = "NormalDeath" /\ z.orientation # OrientationStill -> 3
    [] z.stance = "CriticalDeath" /\ z.orientation # OrientationStill -> 4
    [] OTHER -> 5

\* the Walking arm with the row stride of the Still arm
sprite_idx_walk_stride_4(z) ==
  CASE sprite_arm(z) = 1 -> z.direction * 4 + z.zombie_idx
    [] sprite_arm(z) = 2 -> z.direction * 4 + z.zombie_idx + ZOMBIE_STILL_SPRITE_OFFSET
    [] sprite_arm(z) = 3 -> z.direction * 6 + z.zombie_death_idx + NORMAL_DEATH_SPRITE_OFFSET
    [] sprite_arm(z) = 4 -> z.direction * 8 + z.zombie_death_idx
    [] OTHER -> z.orientation * 8 + z.zombie_idx + ZOMBIE_STILL_SPRITE_OFFSET

\* sprite_idx of the arm taken
sprite_idx(z) ==
  CASE sprite_arm(z) = 1 -> z.direction * 4 + z.zombie_idx
    [] sprite_arm(z) = 2 -> z.direction * 8 + z.zombie_idx + ZOMBIE_STILL_SPRITE_OFFSET
    [] sprite_arm(z) = 3 -> z.direction * 6 + z.zombie_death_idx + NORMAL_DEATH_SPRITE_OFFSET
    [] sprite_arm(z) = 4 -> z.direction * 8 + z.zombie_death_idx
    [] OTHER -> z.orientation * 8 + z.zombie_idx + ZOMBIE_STILL_SPRITE_OFFSET

\* the facing overwritten in every arm
sprite_drawable_every_arm(z) == [z EXCEPT !.direction = z.orientation]

\* the drawable after the call: the `_` arm assigns drawable.direction
sprite_drawable(z) ==
  IF sprite_arm(z) = 5 THEN [z EXCEPT !.direction = z.orientation] ELSE z

\* the CharacterSheet returned (x_div, read from the sprite table, left out)
get_next_sprite(z) ==
  [ index   |-> sprite_idx(z),
    y_div   |-> IF z.stance = "NormalDeath" \/ z.stance = "CriticalDeath" THEN 0 ELSE 1,
    row_idx |-> 2 ]

(***************************************************************************)
(* The state machine.                                                      *)
(***************************************************************************)
NoRun == [phase |-> "idle", i |-> 0, movement |-> <<0, 0>>, game_time |-> 0, bullets |-> <<>>]

NoCall ==
  [ op |-> "new", zid |-> 0, movement |-> <<0, 0>>, game_time |-> 0, dir |-> 0,
    can_move |-> TRUE, bullets |-> <<>>, rands |-> <<>>, max_idx |-> 0,
    streak |-> 0, index |-> 0 ]

\* WindowContext::new: controls: None, mouse_pos: (0.0, 0.0)
NoWindow ==
  [ controls |-> FALSE, mouse_pos |-> <<0, 0>>, op |-> "new", events |-> <<>>,
    status |-> "Open", left_click |-> <<>> ]

\* the component storages run joins: CameraInputState, CharacterInputState, Bullets
Worlds == [camera : BOOLEAN, input : BOOLEAN, bullets : BOOLEAN]

\* run: (&mut zombies, &camera_input, &character_input, &bullets).join() yields
\* the entity only when it has all four components
joined(w) == w.camera /\ w.input /\ w.bullets

\* views::Bullet constants of game::constants, in bullet position units
BULLET_W == 1
BULLET_H == 1
BulletSpeeds == {1, 2}

Rect(x, y, w, h) == [x |-> x, y |-> y, w |-> w, h |-> h]

\* Bullet::new(point)
bullet_new(point) == Rect(point.x, point.y, BULLET_W, BULLET_H)

NoBullet ==
  [ rect |-> Rect(0, 0, BULLET_W, BULLET_H), prev |-> Rect(0, 0, BULLET_W, BULLET_H),
    speed |-> 1, some |-> TRUE, op |-> "new", dt |-> 0, output |-> <<0, 0>>,
    positive |-> FALSE ]

NoCalls == [update |-> 0, check |-> 0]

Init ==
  /\ zombies \in [ZombieIds -> {new(p) : p \in InitPositions}]
  /\ run = NoRun
  /\ call = NoCall
  /\ before = new(<<0, 0>>)
  /\ rand_calls = [i \in ZombieIds |-> 0]
  /\ ticks = 0
  /\ calls = [i \in ZombieIds |-> NoCalls]
  /\ world \in Worlds
  /\ window = NoWindow
  /\ bullet = NoBullet

\* the loop body writing through its `z`, one element of zs.zombies, as every agent
write_agent_aliased(zs, i, z) == [j \in DOMAIN zs |-> z]

\* run: `for z in &mut zs.zombies`: the body writes through z, one element
write_agent(zs, i, z) == [zs EXCEPT ![i] = z]

\* the loop body entered at its second statement
body_start_at_check == "check"

\* run: the first statement of the loop body is z.update(..)
body_start == "update"

\* PreDrawSystem::run: the join yields the container with its camera, player
\* input and projectiles, and the loop over zs.zombies starts
\* GameTime counts elapsed time: a tick's value is not below the last one's
later_game_times(game_time) == {g \in GameTimes : g >= game_time}

RunBegin ==
  /\ run.phase = "idle"
  /\ ticks < MaxTicks
  /\ IF joined(world)
     THEN /\ \E movement \in PlayerMovements, game_time \in later_game_times(run.game_time),
                 bullets \in BulletLists :
               run' = [phase |-> body_start, i |-> 1, movement |-> movement,
                       game_time |-> game_time, bullets |-> bullets]
          /\ call' = [NoCall EXCEPT !.op = "run"]
     ELSE /\ run' = run
          /\ call' = [NoCall EXCEPT !.op = "run_joined_nothing"]
  /\ before' = new(<<0, 0>>)
  /\ ticks' = ticks + 1
  /\ UNCHANGED <<zombies, rand_calls, calls, world, window, bullet>>

\* update calls calc_next_movement in the pursuit branch and in a due
\* re-decision of the idle branch, and nowhere else
asks_path_finder(z, movement, game_time) ==
  /\ is_alive(z.stance)
  /\ \/ in_pursuit_range(z, movement)
     \/ decision_due(z.last_decision, game_time)

\* update calls can_move_to_tile in the idle branch, and nowhere else
asks_tile_map(z, movement) ==
  is_alive(z.stance) /\ ~in_pursuit_range(z, movement)

\* PreDrawSystem::run: z.update(&world_to_clip, ci, gt.0); dir and can_move
\* are what calc_next_movement and can_move_to_tile return when called
Update(i) ==
  /\ run.phase = "update"
  /\ run.i = i
  /\ \E dir \in IF asks_path_finder(zombies[i], run.movement, run.game_time)
                THEN HeadingInputs ELSE {0},
        can_move \in IF asks_tile_map(zombies[i], run.movement)
                     THEN BOOLEAN ELSE {TRUE} :
       /\ zombies' = write_agent(zombies, i, update(zombies[i], run.movement, run.game_time, dir, can_move))
       /\ call' = [NoCall EXCEPT !.op = "update", !.zid = i, !.movement = run.movement,
                                 !.game_time = run.game_time, !.dir = dir, !.can_move = can_move]
  /\ before' = zombies[i]
  /\ run' = [run EXCEPT !.phase = "check"]
  /\ calls' = [calls EXCEPT ![i].update = calls[i].update + 1]
  /\ UNCHANGED <<rand_calls, ticks, world, window, bullet>>

\* PreDrawSystem::run: z.check_bullet_hits(&bs.bullets), then the next agent
CheckBulletHits(i) ==
  /\ run.phase = "check"
  /\ run.i = i
  /\ \E rands \in [1..Len(run.bullets) -> BOOLEAN] :
       LET used == random_bools_used(zombies[i], run.bullets, rands)
       IN /\ zombies' = write_agent(zombies, i, check_bullet_hits(zombies[i], run.bullets, rands))
          /\ call' = [NoCall EXCEPT !.op = "check_bullet_hits", !.zid = i,
                                    !.bullets = run.bullets, !.rands = used]
          /\ rand_calls' = [rand_calls EXCEPT ![i] = rand_calls[i] + Len(used)]
  /\ before' = zombies[i]
  /\ run' = IF i + 1 \in DOMAIN zombies
            THEN [run EXCEPT !.phase = body_start, !.i = i + 1]
            ELSE [NoRun EXCEPT !.game_time = run.game_time]
  /\ calls' = [calls EXCEPT ![i].check = calls[i].check + 1]
  /\ UNCHANGED <<ticks, world, window, bullet>>

\* consecutive calls of one counter helper on one agent with one max_idx,
\* counted from a call that found the counter at 0
Streak(op, i, max_idx, idx) ==
  IF call.op = op /\ call.zid = i /\ call.max_idx = max_idx
     /\ call.streak > 0 /\ call.streak < MaxStreak
  THEN call.streak + 1
  ELSE IF idx = 0 THEN 1 ELSE 0

\* the draw pass: ZombieDrawSystem::draw -> get_next_sprite(&mut drawable)
GetNextSprite(i) ==
  /\ run.phase = "idle"
  /\ zombies' = [zombies EXCEPT ![i] = sprite_drawable(zombies[i])]
  /\ call' = [NoCall EXCEPT !.op = "get_next_sprite", !.zid = i,
                            !.index = get_next_sprite(zombies[i]).index]
  /\ before' = zombies[i]
  /\ UNCHANGED <<run, rand_calls, ticks, calls, world, window, bullet>>

\* the animation clock: drawable.update_alive_idx(max_idx)
UpdateAliveIdx(i, max_idx) ==
  /\ run.phase = "idle"
  /\ zombies' = [zombies EXCEPT ![i] = update_alive_idx(zombies[i], max_idx)]
  /\ call' = [NoCall EXCEPT !.op = "update_alive_idx", !.zid = i, !.max_idx = max_idx,
                            !.streak = Streak("update_alive_idx", i, max_idx, zombies[i].zombie_idx)]
  /\ before' = zombies[i]
  /\ UNCHANGED <<run, rand_calls, ticks, calls, world, window, bullet>>

\* the animation clock: drawable.update_death_idx(max_idx)
UpdateDeathIdx(i, max_idx) ==
  /\ run.phase = "idle"
  /\ zombies' = [zombies EXCEPT ![i] = update_death_idx(zombies[i], max_idx)]
  /\ call' = [NoCall EXCEPT !.op = "update_death_idx", !.zid = i, !.max_idx = max_idx,
                            !.streak = Streak("update_death_idx", i, max_idx, zombies[i].zombie_death_idx)]
  /\ before' = zombies[i]
  /\ UNCHANGED <<run, rand_calls, ticks, calls, world, window, bullet>>

\* The tick pass and the draw pass of the game loop.  The animation clock
\* (update_alive_idx, update_death_idx) touches only the two frame counters,
\* which the tick pass neither reads nor writes; it is driven under SpecDraw.
Next ==
  \/ RunBegin
  \/ \E i \in DOMAIN zombies : Update(i)
  \/ \E i \in DOMAIN zombies : CheckBulletHits(i)
  \/ \E i \in DOMAIN zombies : GetNextSprite(i)

Spec == Init /\ [][Next]_vars

\* The last tick of a container of two fresh agents.
InitTick ==
  /\ zombies \in [1..2 -> {new(p) : p \in InitPositions}]
  /\ run = NoRun
  /\ call = NoCall
  /\ before = new(<<0, 0>>)
  /\ rand_calls = [i \in 1..2 |-> 0]
  /\ ticks = MaxTicks - 1
  /\ calls = [i \in 1..2 |-> NoCalls]
  /\ world = [camera |-> TRUE, input |-> TRUE, bullets |-> TRUE]
  /\ window = NoWindow
  /\ bullet = NoBullet

SpecTick == InitTick /\ [][Next]_vars

\* The draw pass and the animation clock over every ZombieDrawable the
\* field types admit: get_next_sprite and the counter helpers are functions
\* of (stance, orientation, direction, zombie_idx, zombie_death_idx) alone.
Drawables ==
  { [new(<<0, 0>>) EXCEPT !.stance = s, !.orientation = o, !.direction = d,
                          !.zombie_idx = a, !.zombie_death_idx = k] :
      s \in Stances, o \in Orientations, d \in Orientations,
      a \in 0..MaxFrame, k \in 0..MaxFrame }

InitDraw ==
  /\ zombies \in [ZombieIds -> Drawables]
  /\ run = NoRun
  /\ call = NoCall
  /\ before = new(<<0, 0>>)
  /\ rand_calls = [i \in ZombieIds |-> 0]
  /\ ticks = 0
  /\ calls = [i \in ZombieIds |-> NoCalls]
  /\ world = [camera |-> TRUE, input |-> TRUE, bullets |-> TRUE]
  /\ window = NoWindow
  /\ bullet = NoBullet

NextDraw ==
  \/ \E i \in DOMAIN zombies : GetNextSprite(i)
  \/ \E i \in DOMAIN zombies, max_idx \in 1..MaxFrame : UpdateAliveIdx(i, max_idx)
  \/ \E i \in DOMAIN zombies, max_idx \in 1..MaxFrame : UpdateDeathIdx(i, max_idx)

SpecDraw == InitDraw /\ [][NextDraw]_vars

(***************************************************************************)
(* WindowContext: set_controls and poll_events.  TilemapControls is        *)
(* another module; of its calls the model keeps the argument of the last   *)
(* mouse_left_click: <<>> for None, <<m_pos>> for Some(m_pos).             *)
(***************************************************************************)
Ev(kind, key, state, button, position) ==
  [kind |-> kind, key |-> key, state |-> state, button |-> button, position |-> position]

\* the glutin events a poll can drain; DeviceEvent is not a WindowEvent
EventInputs ==
  { Ev("KeyboardInput", "Escape", "Pressed", "", <<0, 0>>),
    Ev("KeyboardInput", "W", "Pressed", "", <<0, 0>>),
    Ev("MouseInput", "", "Pressed", "Left", <<0, 0>>),
    Ev("CursorMoved", "", "", "", <<3, 4>>),
    Ev("CloseRequested", "", "", "", <<0, 0>>),
    Ev("DeviceEvent", "", "", "", <<0, 0>>) }

EventBatches == SeqsUpTo(EventInputs, MaxEvents)

\* process_keyboard_input: if let Some(Escape) = input.virtual_keycode
process_keyboard_input(input) ==
  IF input.key = "Escape" THEN "Close" ELSE "Open"

\* poll_events: the closure run on one event
on_event(w, event) ==
  CASE event.kind = "KeyboardInput" ->
         [w EXCEPT !.status = process_keyboard_input(event)]
    [] event.kind = "MouseInput" /\ event.state = "Pressed" /\ event.button = "Left" ->
         [w EXCEPT !.left_click = <<w.mouse_pos>>, !.status = "Open"]
    [] event.kind = "MouseInput" /\ event.state = "Released" /\ event.button = "Left" ->
         [w EXCEPT !.left_click = <<>>, !.status = "Open"]
    [] event.kind = "CursorMoved" ->
         [w EXCEPT !.mouse_pos = event.position, !.status = "Open"]
    [] event.kind = "CloseRequested" ->
         [w EXCEPT !.status = "Close"]
    [] OTHER ->
         [w EXCEPT !.status = "Open"]

\* poll_events: the closure run on the events from k on, in their order
RECURSIVE drain(_, _, _)
drain(w, events, k) ==
  IF k > Len(events) THEN w ELSE drain(on_event(w, events[k]), events, k + 1)

\* WindowContext::poll_events with the controls set
poll_events(w, events) ==
  drain([w EXCEPT !.op = "poll_events", !.events = events, !.status = "Open"], events, 1)

\* WindowContext::set_controls
SetControls ==
  /\ window.op # "panic"
  /\ window' = [window EXCEPT !.controls = TRUE, !.op = "set_controls"]
  /\ UNCHANGED <<zombies, run, call, before, rand_calls, ticks, calls, world, bullet>>

\* WindowContext::poll_events; without controls it panics
PollEvents ==
  /\ window.op # "panic"
  /\ IF window.controls
     THEN \E events \in EventBatches : window' = poll_events(window, events)
     ELSE window' = [window EXCEPT !.op = "panic"]
  /\ UNCHANGED <<zombies, run, call, before, rand_calls, ticks, calls, world, bullet>>

InitWindow ==
  /\ zombies = [i \in ZombieIds |-> new(<<0, 0>>)]
  /\ run = NoRun
  /\ call = NoCall
  /\ before = new(<<0, 0>>)
  /\ rand_calls = [i \in ZombieIds |-> 0]
  /\ ticks = 0
  /\ calls = [i \in ZombieIds |-> NoCalls]
  /\ world = [camera |-> TRUE, input |-> TRUE, bullets |-> TRUE]
  /\ window = NoWindow
  /\ bullet = NoBullet

NextWindow == SetControls \/ PollEvents

SpecWindow == InitWindow /\ [][NextWindow]_vars

(***************************************************************************)
(* views::Bullet.  Positions, the output size and BULLET_SPEED * dt are    *)
(* whole numbers of one unit; the source computes in f64.                  *)
(***************************************************************************)
\* game.output_size() as update reads it
OutputSizes == {<<MaxOutput, MaxOutput - 1>>, <<MaxOutput - 2, MaxOutput>>}

\* the frame times update is given; PositiveDts when the clock only advances
Dts == {-1, 0, 1, 2}
PositiveDts == {dt \in Dts : dt > 0}

\* the bounds test without the y coordinate
in_output_x_only(rect, w, h) == ~(rect.x > w \/ rect.x < 0)

\* Bullet::update: the negation of x > w || x < 0.0 || y > h || y < 0.0
in_output(rect, w, h) ==
  ~(rect.x > w \/ rect.x < 0 \/ rect.y > h \/ rect.y < 0)

\* Bullet::update(game, dt): the rectangle moved and whether Some is returned
bullet_update(rect, speed, output, dt) ==
  LET moved_rect == [rect EXCEPT !.x = rect.x + speed * dt]
  IN [rect |-> moved_rect, some |-> in_output(moved_rect, output[1], output[2])]

\* one call of update on a bullet that a former call returned
BulletUpdate ==
  /\ bullet.some
  /\ \E output \in OutputSizes, dt \in IF bullet.positive THEN PositiveDts ELSE Dts :
       LET r == bullet_update(bullet.rect, bullet.speed, output, dt)
       IN bullet' = [bullet EXCEPT !.rect = r.rect, !.prev = bullet.rect, !.some = r.some,
                                   !.op = "update", !.dt = dt, !.output = output]
  /\ UNCHANGED <<zombies, run, call, before, rand_calls, ticks, calls, world, window>>

InitBullet ==
  /\ zombies = [i \in ZombieIds |-> new(<<0, 0>>)]
  /\ run = NoRun
  /\ call = NoCall
  /\ before = new(<<0, 0>>)
  /\ rand_calls = [i \in ZombieIds |-> 0]
  /\ ticks = 0
  /\ calls = [i \in ZombieIds |-> NoCalls]
  /\ world = [camera |-> TRUE, input |-> TRUE, bullets |-> TRUE]
  /\ window = NoWindow
  /\ \E x \in 0..MaxOutput, y \in -1..(MaxOutput + 1), speed \in BulletSpeeds,
        positive \in BOOLEAN :
       bullet = [NoBullet EXCEPT !.rect = bullet_new([x |-> x, y |-> y]),
                                 !.prev = bullet_new([x |-> x, y |-> y]),
                                 !.speed = speed, !.positive = positive]

NextBullet == BulletUpdate

\* the frame loop calls update on every bullet it holds in every frame
SpecBullet == InitBullet /\ [][NextBullet]_vars /\ WF_vars(BulletUpdate)

TypeOK ==
  /\ bullet.some \in BOOLEAN
  /\ bullet.op \in {"new", "update"}
  /\ window.status \in {"Open", "Close"}
  /\ window.op \in {"new", "set_controls", "poll_events", "panic"}
  /\ Len(window.events) <= MaxEvents
  /\ \A i \in DOMAIN zombies :
       /\ zombies[i].stance \in Stances
       /\ zombies[i].orientation \in Orientations
       /\ zombies[i].direction \in Orientations
  /\ run.phase \in {"idle", "update", "check", "exited"}
  /\ world \in Worlds

(***************************************************************************)
(* Properties.  `before` is the agent right before the last operation,     *)
(* Agent the same agent right after it, `call` the operation's inputs.     *)
(***************************************************************************)
Agent == zombies[call.zid]

Terminal(stance) == stance \in {"NormalDeath", "CriticalDeath"}

\* the 15 x 15 box test between an agent position and a projectile position
BoxHit(p, q) == Abs(p[1] - q[1]) < 1500 /\ Abs(p[2] - q[2]) < 1500

SomeBulletHits(position, bullets) ==
  \E k \in 1..Len(bullets) : BoxHit(position, bullets[k])

\* the player's displacement since the previous update of the agent
Displacement == VSub(call.movement, before.previous_position)

NormSq(v) == v[1] * v[1] + v[2] * v[2]

\* C1: once an agent's stance is NormalDeath or CriticalDeath, no call to
\* update and no call to check_bullet_hits changes it, whatever the player
\* position, the tick, the projectile list and the random outcomes are.
C1_TerminalStanceKept ==
  (call.op \in {"update", "check_bullet_hits"} /\ Terminal(before.stance))
    => Agent.stance = before.stance

\* an agent already in NormalDeath was hit again by an overlapping projectile
C1_Witness ==
  /\ call.op = "check_bullet_hits"
  /\ before.stance = "NormalDeath"
  /\ SomeBulletHits(before.position, call.bullets)
  /\ Agent.stance = "NormalDeath"

\* C2: after every update of an agent whose stance is terminal the movement
\* vector is (0,0), and last_decision, the facing direction and the
\* orientation are the ones the agent had before the update.
C2_DeadAgentInert ==
  (call.op = "update" /\ Terminal(before.stance))
    => /\ Agent.movement_direction = <<0, 0>>
       /\ Agent.last_decision = before.last_decision
       /\ Agent.direction = before.direction
       /\ Agent.orientation = before.orientation

\* an agent killed while moving has been updated again
C2_Witness ==
  /\ call.op = "update"
  /\ Terminal(before.stance)
  /\ before.movement_direction # <<0, 0>>
  /\ Agent.movement_direction = <<0, 0>>

\* update took the pursuit branch (speed 1.4) rather than the idle one (1.0)
TookPursuit == Agent.movement_speed = PURSUIT_SPEED
TookIdle == Agent.movement_speed = IDLE_SPEED

C4_CollisionOutcome ==
  (call.op = "check_bullet_hits")
    => /\ Agent = [before EXCEPT !.stance = Agent.stance]
       /\ ~Terminal(before.stance)
            => IF SomeBulletHits(before.position, call.bullets)
               THEN Terminal(Agent.stance)
               ELSE Agent.stance = before.stance

\* a live agent was hit and is dead
C4_Witness ==
  /\ call.op = "check_bullet_hits"
  /\ ~Terminal(before.stance)
  /\ SomeBulletHits(before.position, call.bullets)
  /\ Terminal(Agent.stance)

\* C5: in the idle branch of a live agent the destination is re-rolled, and
\* last_decision stamped with the tick, exactly when last_decision + 2 < tick
\* or tick = 0: from last_decision 5 at tick 8 and not at 6 or 7, and always
\* at tick 0.
C5_DecisionCadence ==
  (call.op = "update" /\ ~Terminal(before.stance) /\ TookIdle)
    => /\ IF before.last_decision + 2 < call.game_time \/ call.game_time = 0
          THEN /\ Agent.last_decision = call.game_time
               /\ Agent.stance = "Walking"
               /\ Agent.movement_direction = direction_movement(call.dir)
          ELSE /\ Agent.last_decision = before.last_decision
               /\ Agent.stance = before.stance
               /\ Agent.direction = before.direction
       /\ (before.last_decision = 5 /\ call.game_time = 8) => Agent.last_decision = 8
       /\ (before.last_decision = 5 /\ call.game_time \in {6, 7}) => Agent.last_decision = 5
       /\ call.game_time = 0 => (Agent.last_decision = 0 /\ Agent.stance = "Walking")

\* an idle agent that decided at tick 5 decided again at tick 8
C5_Witness ==
  /\ call.op = "update"
  /\ ~Terminal(before.stance)
  /\ TookIdle
  /\ before.last_decision = 5
  /\ call.game_time = 8
  /\ Agent.last_decision = 8

\* C6: every update sets position to position + movement vector * speed +
\* offset_delta, offset_delta being the player position minus the previous
\* snapshot; a dead agent's position changes by offset_delta alone.
C6_PositionUpdate ==
  (call.op = "update")
    => /\ Agent.position =
            VAdd(VAdd(before.position,
                      VScale(Agent.movement_direction, Agent.movement_speed)),
                 Displacement)
       /\ Terminal(before.stance) => Agent.position = VAdd(before.position, Displacement)

\* a dead agent that had speed and heading was carried along by the player
C6_Witness ==
  /\ call.op = "update"
  /\ Terminal(before.stance)
  /\ before.movement_speed > 0
  /\ before.movement_direction # <<0, 0>>
  /\ Displacement # <<0, 0>>
  /\ Agent.position = VAdd(before.position, Displacement)

\* C7: update_alive_idx(max) adds one to the alive frame index when it is
\* below max and resets it to 0 otherwise, so the index is in 0..max after
\* any call, and calls with one max from index 0 yield 1, 2, ..., max, 0.
C7_AliveIdxWraps ==
  (call.op = "update_alive_idx")
    => /\ Agent.zombie_idx =
            IF before.zombie_idx < call.max_idx THEN before.zombie_idx + 1 ELSE 0
       /\ Agent.zombie_idx \in 0..call.max_idx
       /\ call.streak > 0 => Agent.zombie_idx = call.streak % (call.max_idx + 1)

\* the fourth call with max 3 from index 0 is back at 0
C7_Witness ==
  /\ call.op = "update_alive_idx"
  /\ call.max_idx = 3
  /\ call.streak = 4
  /\ before.zombie_idx = 3
  /\ Agent.zombie_idx = 0

\* C8: update_death_idx(max) adds one to the death frame index when it is
\* below max and leaves it alone otherwise; from 0 with one max the index
\* never decreases, never exceeds max, is max after max calls and stays there.
C8_DeathIdxSaturates ==
  (call.op = "update_death_idx")
    => /\ Agent.zombie_death_idx =
            IF before.zombie_death_idx < call.max_idx
            THEN before.zombie_death_idx + 1
            ELSE before.zombie_death_idx
       /\ Agent.zombie_death_idx >= before.zombie_death_idx
       /\ call.streak > 0 =>
            Agent.zombie_death_idx =
              IF call.streak < call.max_idx THEN call.streak ELSE call.max_idx

\* the fourth call with max 2 from index 0 finds 2 and leaves 2
C8_Witness ==
  /\ call.op = "update_death_idx"
  /\ call.max_idx = 2
  /\ call.streak = 4
  /\ before.zombie_death_idx = 2
  /\ Agent.zombie_death_idx = 2

\* C9: get_next_sprite returns index facing*4 + alive for stance Still;
\* facing*8 + alive + WALK_OFFSET for Walking, facing*6 + death +
\* NORMAL_DEATH_OFFSET for NormalDeath and facing*8 + death for CriticalDeath
\* when the orientation is not Still; orientation*8 + alive + WALK_OFFSET in
\* every remaining case.
C9_SpriteIndex ==
  (call.op = "get_next_sprite")
    => call.index =
         IF before.stance = "Still"
         THEN before.direction * 4 + before.zombie_idx
         ELSE IF before.orientation = OrientationStill
         THEN before.orientation * 8 + before.zombie_idx + ZOMBIE_STILL_SPRITE_OFFSET
         ELSE IF before.stance = "Walking"
         THEN before.direction * 8 + before.zombie_idx + ZOMBIE_STILL_SPRITE_OFFSET
         ELSE IF before.stance = "NormalDeath"
         THEN before.direction * 6 + before.zombie_death_idx + NORMAL_DEATH_SPRITE_OFFSET
         ELSE before.direction * 8 + before.zombie_death_idx

\* Walking with facing 3 and alive frame 2 resolved to 3*8 + 2 + 32 = 58
C9_Witness ==
  /\ call.op = "get_next_sprite"
  /\ before.stance = "Walking"
  /\ before.orientation # OrientationStill
  /\ before.direction = 3
  /\ before.zombie_idx = 2
  /\ call.index = 58

InRange == NormSq(VSub(before.position, Displacement)) < 30000 * 30000

\* the re-decision condition of the idle branch
Due == before.last_decision + 2 < call.game_time \/ call.game_time = 0

LiveUpdate == call.op = "update" /\ ~Terminal(before.stance)

\* C11: when the agent container's entity lacks a camera, player-input or
\* projectile component in a tick, PreDrawSystem::run terminates the process
\* instead of leaving the container's agents un-updated.
C11_FailFast ==
  (ticks > 0 /\ ~joined(world)) => run.phase = "exited"

\* C12: in every tick the scheduler calls, for every agent of a joined
\* container, update exactly once and then check_bullet_hits exactly once;
\* check_bullet_hits sees the agent as update left it, a kill leaves position
\* and movement vector as moved in that tick, and the next update zeroes the
\* movement vector.
C12_TickOrdering ==
  /\ joined(world) =>
       \A i \in DOMAIN zombies :
         LET done == run.phase = "idle" \/ i < run.i
         IN /\ calls[i].update =
                 IF done \/ (i = run.i /\ run.phase = "check") THEN ticks ELSE ticks - 1
            /\ calls[i].check = IF done THEN ticks ELSE ticks - 1
  /\ run.phase = "check" => (call.op = "update" /\ call.zid = run.i)
  /\ (call.op = "check_bullet_hits" /\ ~Terminal(before.stance) /\ Terminal(Agent.stance))
       => /\ Agent.position = before.position
          /\ Agent.movement_direction = before.movement_direction
          /\ Agent.previous_position = before.previous_position
  /\ (call.op = "update" /\ Terminal(before.stance))
       => Agent.movement_direction = <<0, 0>>

\* an agent killed on the move in the first tick got its second update
C12_Witness ==
  /\ ticks = 2
  /\ call.op = "update"
  /\ calls[call.zid].update = 2
  /\ calls[call.zid].check = 1
  /\ Terminal(before.stance)
  /\ before.movement_direction # <<0, 0>>
  /\ Agent.movement_direction = <<0, 0>>

C14_SingleDeathRoll ==
  /\ \A i \in DOMAIN zombies :
       /\ rand_calls[i] <= 1
       /\ rand_calls[i] = 1 <=> Terminal(zombies[i].stance)
  /\ call.op = "check_bullet_hits"
       => /\ Len(call.rands) =
               IF ~Terminal(before.stance) /\ SomeBulletHits(before.position, call.bullets)
               THEN 1 ELSE 0
          /\ Len(call.rands) = 1
               => Agent.stance = IF call.rands[1] THEN "NormalDeath" ELSE "CriticalDeath"

\* two overlapping projectiles in one list, one draw
C14_Witness ==
  /\ call.op = "check_bullet_hits"
  /\ ~Terminal(before.stance)
  /\ Len(call.bullets) = 2
  /\ \A k \in 1..2 : BoxHit(before.position, call.bullets[k])
  /\ call.rands = <<FALSE>>
  /\ Agent.stance = "CriticalDeath"
  /\ rand_calls[call.zid] = 1

\* C15: after a pursuit-branch update the agent is Walking at speed 1.4 with
\* last_decision unchanged; after an idle-branch update its speed is 1.0; so
\* after any update of a live agent the speed is 1.0 or 1.4.
C15_BranchEffects ==
  LiveUpdate
    => /\ InRange => /\ Agent.stance = "Walking"
                     /\ Agent.movement_speed = 14
                     /\ Agent.last_decision = before.last_decision
       /\ ~InRange => Agent.movement_speed = 10
       /\ Agent.movement_speed \in {10, 14}

\* a fresh agent pursued at a tick at which an idle agent would have decided
C15_Witness ==
  /\ LiveUpdate
  /\ InRange
  /\ before.stance = "Still"
  /\ before.last_decision = 0
  /\ call.game_time = 5
  /\ Agent.last_decision = 0
  /\ Agent.stance = "Walking"
  /\ Agent.movement_speed = 14

\* C16: after every update the previous-player-position snapshot is the
\* player position passed to the call, and no other call touches it; so a
\* later update's offset_delta is the player's displacement between the two
\* updates, (0,0) when the player did not move.
C16_Snapshot ==
  /\ call.op = "update" => Agent.previous_position = call.movement
  /\ call.op \in {"check_bullet_hits", "get_next_sprite"}
       => Agent.previous_position = before.previous_position
  /\ (call.op = "update" /\ Terminal(before.stance) /\ call.movement = before.previous_position)
       => Agent.position = before.position

\* the second update of a dead agent with the player standing still off origin
C16_Witness ==
  /\ call.op = "update"
  /\ calls[call.zid].update = 2
  /\ Terminal(before.stance)
  /\ before.previous_position = <<500, 0>>
  /\ call.movement = <<500, 0>>
  /\ Agent.previous_position = <<500, 0>>
  /\ Agent.position = before.position

\* C17: an idle-branch update of a live agent with the re-decision not due
\* and the tile enterable leaves movement vector, facing, orientation, stance
\* and last_decision unchanged; a fresh agent first updated in the idle branch
\* at tick 1 or 2 stays Still and is only carried by offset_delta.
C17_IdleContinuation ==
  (LiveUpdate /\ ~InRange /\ ~Due)
    => /\ call.can_move
            => /\ Agent.movement_direction = before.movement_direction
               /\ Agent.direction = before.direction
               /\ Agent.orientation = before.orientation
               /\ Agent.stance = before.stance
               /\ Agent.last_decision = before.last_decision
       /\ (before.stance = "Still" /\ before.movement_direction = <<0, 0>>
           /\ before.last_decision = 0 /\ call.game_time \in {1, 2})
            => /\ Agent.stance = "Still"
               /\ Agent.movement_direction = <<0, 0>>
               /\ Agent.position = VAdd(before.position, Displacement)

\* a fresh agent idled through tick 2 on an enterable tile
C17_Witness ==
  /\ LiveUpdate
  /\ ~InRange
  /\ call.can_move
  /\ calls[call.zid].update = 1
  /\ before.stance = "Still"
  /\ call.game_time = 2
  /\ Agent.stance = "Still"
  /\ Agent.position = VAdd(before.position, Displacement)

\* C18: an idle-branch update on an impassable tile replaces the movement
\* vector by its reversal and sets the orientation to the discrete direction
\* of the reversed heading; a re-decision due in the same update replaces the
\* reversed vector by the re-rolled one.
C18_BounceBack ==
  (LiveUpdate /\ ~InRange /\ ~call.can_move)
    => /\ Agent.orientation =
            orientation_to_direction(
              direction(<<0, 0>>, direction_movement_180(before.movement_direction)))
       /\ IF Due
          THEN Agent.movement_direction = direction_movement(call.dir)
          ELSE /\ Agent.movement_direction = direction_movement_180(before.movement_direction)
               /\ Agent.orientation =
                    orientation_to_direction(direction(<<0, 0>>, Agent.movement_direction))

\* C19: over update, check_bullet_hits and draw calls the stance only moves
\* forward in Still -> Walking -> {NormalDeath, CriticalDeath}: never from
\* Walking to Still, never from a death stance to anything else.
StanceRank(stance) ==
  CASE stance = "Still" -> 0
    [] stance = "Walking" -> 1
    [] OTHER -> 2

C19_StanceForward ==
  call.op \in {"update", "check_bullet_hits", "get_next_sprite"}
    => /\ StanceRank(Agent.stance) >= StanceRank(before.stance)
       /\ Terminal(before.stance) => Agent.stance = before.stance

\* an agent that never walked was killed: Still straight to a death stance
C19_Witness ==
  /\ call.op = "check_bullet_hits"
  /\ before.stance = "Still"
  /\ Terminal(Agent.stance)

\* an event that asks for the window to close
AsksClose(event) ==
  event.kind = "CloseRequested" \/ (event.kind = "KeyboardInput" /\ event.key = "Escape")

\* C20: poll_events returns Close exactly when one of the events it drained
\* is CloseRequested or a keyboard event for Escape, wherever in the batch.
C20_CloseNotLost ==
  window.op = "poll_events"
    => (window.status = "Close" <=> \E k \in DOMAIN window.events : AsksClose(window.events[k]))

\* the last update call kept to the claimed effect and result
BulletStep ==
  bullet.op = "update"
    => /\ bullet.rect.x = bullet.prev.x + bullet.speed * bullet.dt
       /\ bullet.rect.y = bullet.prev.y
       /\ bullet.rect.w = bullet.prev.w
       /\ bullet.rect.h = bullet.prev.h
       /\ bullet.some <=> /\ 0 <= bullet.rect.x
                          /\ bullet.rect.x <= bullet.output[1]
                          /\ 0 <= bullet.rect.y
                          /\ bullet.rect.y <= bullet.output[2]

\* C21: Bullet::update adds BULLET_SPEED * dt to x and leaves y, w and h
\* alone; it returns Some exactly when the new position has 0 <= x <= output
\* width and 0 <= y <= output height; and with positive BULLET_SPEED and dt a
\* bullet updated in every frame is eventually removed.
C21_BulletLifetime ==
  /\ []BulletStep
  /\ [](bullet.positive => <>(~bullet.some))

\* a bullet advanced onto the right edge of the output and was kept
C21_Witness ==
  /\ bullet.op = "update"
  /\ bullet.positive
  /\ bullet.some
  /\ bullet.rect.x > bullet.prev.x
  /\ bullet.rect.x = bullet.output[1]

====
